---- MODULE Spec2Model ----
(***************************************************************************)
(* A model of the vtpc user-space page cache (src/lib/vtpc.c): one handle  *)
(* slot over one backing file, its 2Q cache (A1in, Am, A1out, the resident *)
(* and ghost indexes), the byte-range read/write path, and the system      *)
(* calls the library issues (pread, pwrite, ftruncate, fsync, close), each *)
(* of which may fail.                                                      *)
(* A second specification, SpecFd, follows the descriptors: the whole of   *)
(* g_handles, each slot with its own handle, cache and file.               *)
(*                                                                         *)
(* Every library call is one action.  The C functions are operators that   *)
(* thread a record s through the calls they make:                          *)
(*   s.disk  the bytes of the backing file (its length is the file length) *)
(*   s.acc, s.app, s.size   h->flags (access mode, O_APPEND) and h->size   *)
(*   s.c     h->cache                                                      *)
(*   s.k     fault plan [kind, n]: the n-th call of that kind made by this *)
(*           operation fails (kind "none": no call does)                   *)
(*   s.fired the planned fault has happened                                *)
(*   s.err   some system call or allocation of this operation has failed   *)
(*   s.errno errno as the last failing call left it                        *)
(*   s.lost  a dirty page was freed while its bytes were not in the file   *)
(*   s.dropped  a dirty page that is on no list went with the index        *)
(*   s.hang  the operation entered a loop that cannot terminate            *)
(* The two hash indexes are the open-addressing tables of the code: slot   *)
(* states 0 (empty), 1 (used), 2 (tombstone) and keys, probed linearly     *)
(* from hash_u64(key) & mask.  A probe that can reach neither an empty     *)
(* slot nor its key is a loop that never ends: the call does not return.   *)
(***************************************************************************)
EXTENDS Integers, Sequences, FiniteSets, TLC

\* ---- bounds ----
PageSize == 2        \* bytes per page (the program uses the OS page size)
NPages == 12         \* pages of the file that can hold data
MaxByte == 1         \* bytes are 0..MaxByte
MaxCount == 3        \* a count is at most this, or at most this short of MaxFile
MaxOps == 2          \* library calls per run, after the warm-up
MaxWarm == 4         \* accesses of a warm-up scan
MaxNth == 2          \* a fault plan names the 1st..MaxNth-th call of one kind
CachePages == 4      \* VTPC_CACHE_PAGES
MaxHandles == 5      \* VTPC_MAX_HANDLES
MaxFdOps == 4        \* library calls of a run that follows the descriptors

\* size_t arithmetic wraps; the width is reduced to 30 bits (counts stay tiny)
SizeMod == 2^30

MaxFile == NPages * PageSize
Bytes == 0..MaxByte
Pages == 0..NPages

min_sz(a, b) == IF a < b THEN a ELSE b
max_sz(a, b) == IF a > b THEN a ELSE b

SzDec(x) == (x - 1) % SizeMod
SzInc(x) == (x + 1) % SizeMod
SzAdd(x, y) == (x + y) % SizeMod

Zeros(n) == [i \in 1..n |-> 0]

\* a local variable assigned once: K of the value v
With(v, K(_)) == K(v)

\* ---- sequences as the intrusive lists (head first) ----
RECURSIVE SeqRemove(_, _)
SeqRemove(l, x) ==
  IF l = <<>> THEN <<>>
  ELSE IF Head(l) = x THEN Tail(l)
  ELSE <<Head(l)>> \o SeqRemove(Tail(l), x)

InSeq(l, x) == \E i \in 1..Len(l) : l[i] = x

\* page_list_remove: a node that is on no list has prev = next = NULL and is
\* neither head nor tail, so the call changes nothing
page_list_remove(l, p) == SeqRemove(l, p)
page_list_push_front(l, p) == <<p>> \o l
ghost_list_remove(l, g) == SeqRemove(l, g)
ghost_list_push_front(l, g) == <<g>> \o l

\* ---- fault plan ----
FaultKinds == {"alloc", "pread", "pwrite", "ftruncate", "fsync", "close"}
NoFault == [kind |-> "none", n |-> 0]
\* the call of kind x being made is the one the plan names
Hit(s, x) == s.k.kind = x /\ s.k.n = 1
\* the call of kind x succeeds
Tick(s, x) == IF s.k.kind = x THEN [s EXCEPT !.k.n = @ - 1] ELSE s
Failed(s, e) == [s EXCEPT !.err = TRUE, !.errno = e]
Fire(s, e) == [s EXCEPT !.err = TRUE, !.errno = e, !.fired = TRUE, !.k = NoFault]

\* ---- the OS file ----
\* pread(2): EBADF on a descriptor opened write-only; short at end of file
pread_fullpage(s, off) ==
  IF s.acc = "WRONLY" THEN [r |-> -1, buf |-> <<>>, s |-> Failed(s, "EBADF")]
  ELSE IF Hit(s, "pread") THEN [r |-> -1, buf |-> <<>>, s |-> Fire(s, "EIO")]
  ELSE LET n == min_sz(PageSize, max_sz(0, Len(s.disk) - off))
       IN [r |-> n, buf |-> SubSeq(s.disk, off + 1, off + n), s |-> Tick(s, "pread")]

\* pwrite(2): EBADF on a descriptor opened read-only; writes all of buf at off,
\* zero-filling a gap between the end of the file and off.  The descriptor
\* carries the flags that vtpc_open was given: on one opened with O_APPEND
\* the data goes to the end of the file whatever off is (Linux; a direct-I/O
\* descriptor may refuse the write instead, which is a failure of the plan).
pwrite_fullpage(s, buf, off) ==
  IF s.acc = "RDONLY" THEN [w |-> -1, s |-> Failed(s, "EBADF")]
  ELSE IF Hit(s, "pwrite") THEN [w |-> -1, s |-> Fire(s, "EIO")]
  ELSE LET d == s.disk
           at == IF s.app THEN Len(d) ELSE off
           pad == IF Len(d) < at THEN d \o Zeros(at - Len(d)) ELSE d
           newlen == max_sz(Len(pad), at + Len(buf))
           nd == [i \in 1..newlen |->
                    IF i > at /\ i <= at + Len(buf) THEN buf[i - at] ELSE pad[i]]
       IN [w |-> Len(buf), s |-> [Tick(s, "pwrite") EXCEPT !.disk = nd]]

\* ftruncate(2): fails on a descriptor not open for writing; cuts or zero-extends
os_ftruncate(s, len) ==
  IF s.acc = "RDONLY" THEN [rc |-> -1, s |-> Failed(s, "EINVAL")]
  ELSE IF Hit(s, "ftruncate") THEN [rc |-> -1, s |-> Fire(s, "EIO")]
  ELSE LET d == s.disk
           nd == IF len <= Len(d) THEN SubSeq(d, 1, len) ELSE d \o Zeros(len - Len(d))
       IN [rc |-> 0, s |-> [Tick(s, "ftruncate") EXCEPT !.disk = nd]]

os_fsync(s) ==
  IF Hit(s, "fsync") THEN [rc |-> -1, s |-> Fire(s, "EIO")] ELSE [rc |-> 0, s |-> Tick(s, "fsync")]
os_close(s) ==
  IF Hit(s, "close") THEN [rc |-> -1, s |-> Fire(s, "EIO")] ELSE [rc |-> 0, s |-> Tick(s, "close")]
\* calloc / posix_memalign
os_alloc(s) ==
  IF Hit(s, "alloc") THEN [ok |-> FALSE, s |-> Fire(s, "ENOMEM")]
  ELSE [ok |-> TRUE, s |-> Tick(s, "alloc")]

\* ---- the hash tables ----
\* hash_u64(x) & 63 for x = 0..15, as the function computes it in 64-bit
\* arithmetic; every table of the model has at most 64 slots, so a slot number
\* hash_u64(key) & mask depends on these bits only
HashLow == <<47, 1, 14, 45, 10, 26, 0, 23, 54, 36, 10, 29, 3, 63, 62, 5>>
hash_u64(x) == HashLow[x + 1]

RECURSIVE next_pow2_from(_, _)
next_pow2_from(p, x) == IF p < x THEN next_pow2_from(2 * p, x) ELSE p
next_pow2(x) == next_pow2_from(1, x)

\* a table is its state and keys arrays; slot i of the code is index i + 1.
\* The vals of the resident table are the entries c.ent, by page number; a
\* ghost entry holds nothing but its page number.
ht_init(cap) == [st |-> [i \in 1..cap |-> 0], keys |-> [i \in 1..cap |-> 0]]
\* the table after memset(t, 0, sizeof(*t))
ht_destroy == [st |-> <<>>, keys |-> <<>>]
Cap(t) == Len(t.st)
Live(t) == {t.keys[i] : i \in {j \in 1..Cap(t) : t.st[j] = 1}}

\* the probe loop of ht_get and ht_del from slot i, n slots seen so far:
\* the index of the key's slot, 0 at an empty slot, -1 when every slot has
\* been seen (the table does not change in the loop, so the loop never ends)
RECURSIVE ht_probe(_, _, _, _)
ht_probe(t, key, i, n) ==
  IF n = Cap(t) THEN -1
  ELSE IF t.st[i + 1] = 0 THEN 0
  ELSE IF t.st[i + 1] = 1 /\ t.keys[i + 1] = key THEN i + 1
  ELSE ht_probe(t, key, (i + 1) % Cap(t), n + 1)

ht_get(t, key) ==
  IF Cap(t) = 0 THEN 0 ELSE ht_probe(t, key, hash_u64(key) % Cap(t), 0)

RECURSIVE ht_put_probe(_, _, _, _, _)
ht_put_probe(t, key, i, first_tomb, n) ==
  IF n = Cap(t) THEN [hang |-> TRUE, t |-> t]
  ELSE IF t.st[i + 1] = 0
  THEN LET idx == IF first_tomb # -1 THEN first_tomb ELSE i
       IN [hang |-> FALSE, t |-> [t EXCEPT !.st[idx + 1] = 1, !.keys[idx + 1] = key]]
  ELSE IF t.st[i + 1] = 1 /\ t.keys[i + 1] = key THEN [hang |-> FALSE, t |-> t]
  ELSE ht_put_probe(t, key, (i + 1) % Cap(t),
                    IF t.st[i + 1] = 2 /\ first_tomb = -1 THEN i ELSE first_tomb, n + 1)

ht_put(t, key) == ht_put_probe(t, key, hash_u64(key) % Cap(t), -1, 0)

ht_del(t, key) ==
  With(ht_probe(t, key, hash_u64(key) % Cap(t), 0), LAMBDA r :
    IF r = -1 THEN [hang |-> TRUE, t |-> t]
    ELSE IF r = 0 THEN [hang |-> FALSE, t |-> t]
    ELSE [hang |-> FALSE, t |-> [t EXCEPT !.st[r] = 2]])

\* a cache whose Am may hold as many pages as the whole cache
cache_init_amfull(cfg) ==
  LET capacity == IF cfg < 4 THEN 4 ELSE cfg
      kin0 == IF capacity \div 4 < 1 THEN 1 ELSE capacity \div 4
      kin == IF kin0 >= capacity THEN capacity \div 2 ELSE kin0
      am_cap == capacity
      kout == IF capacity \div 2 < 1 THEN 1 ELSE capacity \div 2
  IN [capacity |-> capacity, kin |-> kin, kout |-> kout, am_cap |-> am_cap,
      a1in_sz |-> 0, am_sz |-> 0, a1out_sz |-> 0,
      a1in |-> <<>>, am |-> <<>>, a1out |-> <<>>,
      resident |-> ht_init(next_pow2(capacity * 4)),
      ghosts |-> ht_init(next_pow2(kout * 4)),
      ent |-> <<>>]

\* a cache whose A1out may hold as many page numbers as the cache holds pages
cache_init_wide(cfg) ==
  LET capacity == IF cfg < 4 THEN 4 ELSE cfg
      kin0 == IF capacity \div 4 < 1 THEN 1 ELSE capacity \div 4
      kin == IF kin0 >= capacity THEN capacity \div 2 ELSE kin0
      am_cap == IF capacity - kin < 1 THEN 1 ELSE capacity - kin
      kout == capacity
  IN [capacity |-> capacity, kin |-> kin, kout |-> kout, am_cap |-> am_cap,
      a1in_sz |-> 0, am_sz |-> 0, a1out_sz |-> 0,
      a1in |-> <<>>, am |-> <<>>, a1out |-> <<>>,
      resident |-> ht_init(next_pow2(capacity * 4)),
      ghosts |-> ht_init(next_pow2(kout * 4)),
      ent |-> <<>>]

\* ---- cache construction ----
cache_init(cfg) ==
  LET capacity == IF cfg < 4 THEN 4 ELSE cfg
      kin0 == IF capacity \div 4 < 1 THEN 1 ELSE capacity \div 4
      kin == IF kin0 >= capacity THEN capacity \div 2 ELSE kin0
      am_cap == IF capacity - kin < 1 THEN 1 ELSE capacity - kin
      kout == IF capacity \div 2 < 1 THEN 1 ELSE capacity \div 2
  IN [capacity |-> capacity, kin |-> kin, kout |-> kout, am_cap |-> am_cap,
      a1in_sz |-> 0, am_sz |-> 0, a1out_sz |-> 0,
      a1in |-> <<>>, am |-> <<>>, a1out |-> <<>>,
      resident |-> ht_init(next_pow2(capacity * 4)),
      ghosts |-> ht_init(next_pow2(kout * 4)),
      ent |-> <<>>]

\* the zeroed vtpc_cache_t of a free slot
NoCache ==
  [capacity |-> 0, kin |-> 0, kout |-> 0, am_cap |-> 0,
   a1in_sz |-> 0, am_sz |-> 0, a1out_sz |-> 0,
   a1in |-> <<>>, am |-> <<>>, a1out |-> <<>>,
   resident |-> ht_destroy, ghosts |-> ht_destroy, ent |-> <<>>]

\* ---- the page entries that are allocated, by page number ----
EntPut(f, key, val) == [x \in (DOMAIN f) \cup {key} |-> IF x = key THEN val ELSE f[x]]
EntDel(f, key) == [x \in (DOMAIN f) \ {key} |-> f[x]]

\* the calls on the two tables of the cache of s; s.hang: a probe never ends
PutResident(s, key) ==
  With(ht_put(s.c.resident, key), LAMBDA r :
    [s EXCEPT !.c.resident = r.t, !.hang = @ \/ r.hang])
DelResident(s, key) ==
  With(ht_del(s.c.resident, key), LAMBDA r :
    [s EXCEPT !.c.resident = r.t, !.hang = @ \/ r.hang])
PutGhost(s, key) ==
  With(ht_put(s.c.ghosts, key), LAMBDA r :
    [s EXCEPT !.c.ghosts = r.t, !.hang = @ \/ r.hang])
DelGhost(s, key) ==
  With(ht_del(s.c.ghosts, key), LAMBDA r :
    [s EXCEPT !.c.ghosts = r.t, !.hang = @ \/ r.hang])

\* the bytes of entry p that the file holds at p's offset
OnDisk(disk, p) ==
  LET off == p.page_no * PageSize
  IN /\ Len(disk) >= off + p.valid_len
     /\ \A i \in 1..p.valid_len : disk[off + i] = p.data[i]

\* cache_free_page; was_dirty: the entry was dirty when the routine that frees
\* it began.  Records a dirty entry released while its bytes are not in the file.
cache_free_page(s, p, was_dirty) ==
  [s EXCEPT !.lost = @ \/ (was_dirty /\ ~OnDisk(s.disk, p)),
            !.c.ent = EntDel(@, p.page_no)]

cache_flush_page(s, p) ==
  IF ~p.dirty THEN [rc |-> 0, p |-> p, s |-> s]
  ELSE With(pwrite_fullpage(s, p.data, p.page_no * PageSize), LAMBDA w :
         IF w.w < 0 THEN [rc |-> -1, p |-> p, s |-> w.s]
         ELSE With(os_ftruncate(w.s, w.s.size), LAMBDA t :
                IF t.rc # 0 THEN [rc |-> -1, p |-> p, s |-> t.s]
                ELSE [rc |-> 0, p |-> [p EXCEPT !.dirty = FALSE], s |-> t.s]))

\* a trim that takes the oldest ghosts off A1out and leaves them in the index
TrimA1out_keep(s) ==
  IF s.c.a1out_sz > s.c.kout
  THEN [s EXCEPT !.c.a1out = SubSeq(@, 1, s.c.kout), !.c.a1out_sz = s.c.kout]
  ELSE s

\* the trim loop of cache_add_ghost
RECURSIVE TrimA1out(_)
TrimA1out(s) ==
  IF s.c.a1out_sz > s.c.kout /\ s.c.a1out # <<>>
  THEN LET old == s.c.a1out[Len(s.c.a1out)]
       IN TrimA1out([DelGhost([s EXCEPT !.c.a1out = SubSeq(@, 1, Len(@) - 1)], old)
                       EXCEPT !.c.a1out_sz = SzDec(@)])
  ELSE s

cache_add_ghost(s, page_no) ==
  With(ht_get(s.c.ghosts, page_no), LAMBDA existing :
    IF existing = -1 THEN [s EXCEPT !.hang = TRUE]
    ELSE IF existing # 0
    THEN [s EXCEPT !.c.a1out = ghost_list_push_front(ghost_list_remove(@, page_no), page_no)]
    ELSE With(os_alloc(s), LAMBDA a :
           IF ~a.ok THEN [a.s EXCEPT !.err = s.err]  \* the caller ignores the failure
           ELSE TrimA1out(PutGhost([a.s EXCEPT !.c.a1out = ghost_list_push_front(@, page_no),
                                               !.c.a1out_sz = SzInc(@)], page_no))))

\* an eviction from A1in that treats a failed writeback as a completed one
evict_from_a1in_drop(s) ==
  IF s.c.a1in = <<>> THEN [rc |-> 0, moved |-> FALSE, s |-> s]
  ELSE LET v == s.c.a1in[Len(s.c.a1in)]
           victim == s.c.ent[v]
           s1 == DelResident([s EXCEPT !.c.a1in = SubSeq(@, 1, Len(@) - 1),
                                       !.c.a1in_sz = SzDec(@)], v)
       IN With(cache_flush_page(s1, victim), LAMBDA f :
            [rc |-> f.rc, moved |-> TRUE,
             s |-> cache_free_page(cache_add_ghost(f.s, v), f.p, victim.dirty)])

\* rc = 0 with moved = FALSE is the early return on an empty list
evict_from_a1in(s) ==
  IF s.c.a1in = <<>> THEN [rc |-> 0, moved |-> FALSE, s |-> s]
  ELSE LET v == s.c.a1in[Len(s.c.a1in)]
           victim == s.c.ent[v]
           s1 == DelResident([s EXCEPT !.c.a1in = SubSeq(@, 1, Len(@) - 1),
                                       !.c.a1in_sz = SzDec(@)], v)
       IN With(cache_flush_page(s1, victim), LAMBDA f :
            IF f.rc # 0
            THEN [rc |-> -1, moved |-> FALSE,
                  s |-> PutResident([f.s EXCEPT !.c.a1in = page_list_push_front(@, v),
                                                !.c.a1in_sz = SzInc(@)], v)]
            ELSE [rc |-> 0, moved |-> TRUE,
                  s |-> cache_free_page(cache_add_ghost(f.s, v), f.p, victim.dirty)])

\* an eviction from Am that records the victim in A1out
evict_from_am_ghost(s) ==
  IF s.c.am = <<>> THEN [rc |-> 0, moved |-> FALSE, s |-> s]
  ELSE LET v == s.c.am[Len(s.c.am)]
           victim == s.c.ent[v]
           s1 == DelResident([s EXCEPT !.c.am = SubSeq(@, 1, Len(@) - 1),
                                       !.c.am_sz = SzDec(@)], v)
       IN With(cache_flush_page(s1, victim), LAMBDA f :
            IF f.rc # 0
            THEN [rc |-> -1, moved |-> FALSE,
                  s |-> PutResident([f.s EXCEPT !.c.am = page_list_push_front(@, v),
                                                !.c.am_sz = SzInc(@)], v)]
            ELSE [rc |-> 0, moved |-> TRUE,
                  s |-> cache_free_page(cache_add_ghost(f.s, v), f.p, victim.dirty)])

\* an eviction from Am that takes the page at the head
evict_from_am_mru(s) ==
  IF s.c.am = <<>> THEN [rc |-> 0, moved |-> FALSE, s |-> s]
  ELSE LET v == s.c.am[1]
           victim == s.c.ent[v]
           s1 == DelResident([s EXCEPT !.c.am = Tail(@), !.c.am_sz = SzDec(@)], v)
       IN With(cache_flush_page(s1, victim), LAMBDA f :
            IF f.rc # 0
            THEN [rc |-> -1, moved |-> FALSE,
                  s |-> PutResident([f.s EXCEPT !.c.am = page_list_push_front(@, v),
                                                !.c.am_sz = SzInc(@)], v)]
            ELSE [rc |-> 0, moved |-> TRUE, s |-> cache_free_page(f.s, f.p, victim.dirty)])

evict_from_am(s) ==
  IF s.c.am = <<>> THEN [rc |-> 0, moved |-> FALSE, s |-> s]
  ELSE LET v == s.c.am[Len(s.c.am)]
           victim == s.c.ent[v]
           s1 == DelResident([s EXCEPT !.c.am = SubSeq(@, 1, Len(@) - 1),
                                       !.c.am_sz = SzDec(@)], v)
       IN With(cache_flush_page(s1, victim), LAMBDA f :
            IF f.rc # 0
            THEN [rc |-> -1, moved |-> FALSE,
                  s |-> PutResident([f.s EXCEPT !.c.am = page_list_push_front(@, v),
                                                !.c.am_sz = SzInc(@)], v)]
            ELSE [rc |-> 0, moved |-> TRUE, s |-> cache_free_page(f.s, f.p, victim.dirty)])

\* an eviction that returns 0 without removing anything leaves the loop
\* condition as it was: the loop spins for ever
Spin(e) == e.rc = 0 /\ ~e.moved
Hang(s) == [rc |-> -1, s |-> [s EXCEPT !.hang = TRUE]]

RECURSIVE CombinedLoopA1in(_)
CombinedLoopA1in(s) ==
  IF s.hang THEN [rc |-> -1, s |-> s]
  ELSE IF SzAdd(s.c.a1in_sz, s.c.am_sz) >= s.c.capacity
  THEN With(IF s.c.am_sz > 0 THEN evict_from_am(s) ELSE evict_from_a1in(s), LAMBDA e :
         IF e.rc # 0 THEN [rc |-> -1, s |-> e.s]
         ELSE IF Spin(e) THEN Hang(e.s)
         ELSE CombinedLoopA1in(e.s))
  ELSE [rc |-> 0, s |-> s]

ensure_space_for_a1in(s) ==
  IF s.c.a1in_sz >= s.c.kin
  THEN With(evict_from_a1in(s), LAMBDA e : [rc |-> e.rc, s |-> e.s])
  ELSE CombinedLoopA1in(s)

RECURSIVE CombinedLoopAm(_)
CombinedLoopAm(s) ==
  IF s.hang THEN [rc |-> -1, s |-> s]
  ELSE IF SzAdd(s.c.a1in_sz, s.c.am_sz) >= s.c.capacity
  THEN With(IF s.c.a1in_sz > 0 THEN evict_from_a1in(s) ELSE evict_from_am(s), LAMBDA e :
         IF e.rc # 0 THEN [rc |-> -1, s |-> e.s]
         ELSE IF Spin(e) THEN Hang(e.s)
         ELSE CombinedLoopAm(e.s))
  ELSE [rc |-> 0, s |-> s]

RECURSIVE ensure_space_for_am(_)
ensure_space_for_am(s) ==
  IF s.hang THEN [rc |-> -1, s |-> s]
  ELSE IF s.c.am_sz >= s.c.am_cap
  THEN With(evict_from_am(s), LAMBDA e :
         IF e.rc # 0 THEN [rc |-> -1, s |-> e.s]
         ELSE IF Spin(e) THEN Hang(e.s)
         ELSE ensure_space_for_am(e.s))
  ELSE CombinedLoopAm(s)

\* a load_page that leaves the tail of the buffer as posix_memalign gave it
load_page_nozero(s, page_no) ==
  With(os_alloc(s), LAMBDA a :
  IF ~a.ok THEN [ok |-> FALSE, s |-> a.s] ELSE
  With(pread_fullpage(a.s, page_no * PageSize), LAMBDA rd :
    IF rd.r < 0 THEN [ok |-> FALSE, s |-> rd.s]
    ELSE [ok |-> TRUE, s |-> rd.s,
          p |-> [page_no |-> page_no,
                 data |-> rd.buf \o [i \in 1..(PageSize - rd.r) |-> MaxByte],
                 valid_len |-> rd.r, dirty |-> FALSE, q |-> "none"]]))

\* load_page: the buffer comes uninitialised from posix_memalign, pread fills
\* its first r bytes and the rest is zeroed
load_page(s, page_no) ==
  With(os_alloc(s), LAMBDA a :
    IF ~a.ok THEN [ok |-> FALSE, s |-> a.s]
    ELSE With(pread_fullpage(a.s, page_no * PageSize), LAMBDA rd :
           IF rd.r < 0 THEN [ok |-> FALSE, s |-> rd.s]
           ELSE [ok |-> TRUE, s |-> rd.s,
                 p |-> [page_no |-> page_no,
                        data |-> rd.buf \o Zeros(PageSize - rd.r),
                        valid_len |-> rd.r,
                        dirty |-> FALSE,
                        q |-> "none"]]))

\* the tail of the two miss paths of cache_get: load the page, put it at the
\* head of list q and in the resident table
cache_get_load(e, page_no, q) ==
  IF e.rc # 0 THEN [ok |-> FALSE, s |-> e.s]
  ELSE With(load_page(e.s, page_no), LAMBDA l :
         IF ~l.ok THEN [ok |-> FALSE, s |-> l.s]
         ELSE [ok |-> TRUE,
               s |-> IF q = "AM"
                     THEN PutResident([l.s EXCEPT !.c.am = page_list_push_front(@, page_no),
                                                  !.c.am_sz = SzInc(@),
                                                  !.c.ent = EntPut(@, page_no, [l.p EXCEPT !.q = "AM"])],
                                      page_no)
                     ELSE PutResident([l.s EXCEPT !.c.a1in = page_list_push_front(@, page_no),
                                                  !.c.a1in_sz = SzInc(@),
                                                  !.c.ent = EntPut(@, page_no, [l.p EXCEPT !.q = "A1IN"])],
                                      page_no)])

\* a miss that does not look at the ghost index
cache_get_miss_cold(s, page_no) ==
  cache_get_load(ensure_space_for_a1in(s), page_no, "A1IN")

\* the ghost lookup of cache_get and what follows it
cache_get_miss(s, page_no) ==
  With(ht_get(s.c.ghosts, page_no), LAMBDA g :
    IF g = -1 THEN [ok |-> FALSE, s |-> [s EXCEPT !.hang = TRUE]]
    ELSE IF g # 0
    THEN cache_get_load(ensure_space_for_am(
                          [DelGhost([s EXCEPT !.c.a1out = ghost_list_remove(@, page_no)], page_no)
                             EXCEPT !.c.a1out_sz = SzDec(@)]),
                        page_no, "AM")
    ELSE cache_get_load(ensure_space_for_a1in(s), page_no, "A1IN"))

\* cache_get: ok = FALSE is the NULL return; on ok the entry is s.c.ent[page_no]
cache_get(s, page_no) ==
  With(ht_get(s.c.resident, page_no), LAMBDA r :
    IF r = -1 THEN [ok |-> FALSE, s |-> [s EXCEPT !.hang = TRUE]]
    ELSE IF r # 0
    THEN IF s.c.ent[page_no].q = "A1IN"
         THEN With(ensure_space_for_am([s EXCEPT !.c.a1in = page_list_remove(@, page_no),
                                                 !.c.a1in_sz = SzDec(@)]), LAMBDA e :
                IF e.rc # 0 THEN [ok |-> FALSE, s |-> e.s]
                ELSE [ok |-> TRUE,
                      s |-> [e.s EXCEPT !.c.ent[page_no].q = "AM",
                                        !.c.am = page_list_push_front(@, page_no),
                                        !.c.am_sz = SzInc(@)]])
         ELSE [ok |-> TRUE,
               s |-> [s EXCEPT !.c.am = page_list_push_front(page_list_remove(@, page_no), page_no)]]
    ELSE cache_get_miss(s, page_no))

\* ---- flush and teardown ----
\* the two list walks of cache_flush_all, as one walk over A1in then Am
RECURSIVE FlushWalk(_, _)
FlushWalk(s, l) ==
  IF l = <<>> THEN [rc |-> 0, s |-> s]
  ELSE With(cache_flush_page(s, s.c.ent[Head(l)]), LAMBDA f :
         IF f.rc # 0 THEN [rc |-> -1, s |-> f.s]
         ELSE FlushWalk([f.s EXCEPT !.c.ent[Head(l)] = f.p], Tail(l)))

cache_flush_all(s) ==
  With(FlushWalk(s, s.c.a1in \o s.c.am), LAMBDA w :
    IF w.rc # 0 THEN w
    ELSE With(os_fsync(w.s), LAMBDA y :
           IF y.rc # 0 THEN [rc |-> -1, s |-> y.s]
           ELSE With(os_ftruncate(y.s, y.s.size), LAMBDA t : [rc |-> t.rc, s |-> t.s])))

RECURSIVE FreeWalk(_, _, _)
FreeWalk(s, l, dirty0) ==
  IF l = <<>> THEN s
  ELSE FreeWalk(cache_free_page(s, s.c.ent[Head(l)], Head(l) \in dirty0), Tail(l), dirty0)

\* cache_destroy frees the entries it finds on the two lists; an entry that is
\* only in the resident table goes with the table (ht_destroy) and is never
\* written: s.dropped records a dirty one.  dirty0: the pages dirty at entry
\* to vtpc_close.
cache_destroy(s, dirty0) ==
  With(FreeWalk(s, s.c.a1in \o s.c.am, dirty0), LAMBDA w :
    [w EXCEPT !.dropped = @ \/ (\E x \in DOMAIN w.c.ent :
                                  x \in dirty0 /\ ~OnDisk(w.disk, w.c.ent[x])),
              !.c = NoCache])

\* a read loop that returns the error whenever a page cannot be got
RECURSIVE read_loop_strict(_, _, _, _, _)
read_loop_strict(s, pos, total, count, out) ==
  IF total >= count THEN [val |-> total, pos |-> pos, out |-> out, s |-> s]
  ELSE With(cache_get(s, pos \div PageSize), LAMBDA g :
         LET page_no == pos \div PageSize
             in_page == pos % PageSize
             want == min_sz(count - total, PageSize - in_page)
         IN IF ~g.ok
            THEN [val |-> -1, pos |-> pos, out |-> out, s |-> g.s]
            ELSE LET p == g.s.c.ent[page_no]
                 IN IF in_page >= p.valid_len
                    THEN [val |-> total, pos |-> pos, out |-> out, s |-> g.s]
                    ELSE LET avail == p.valid_len - in_page
                             take == min_sz(want, avail)
                             out2 == out \o SubSeq(p.data, in_page + 1, in_page + take)
                         IN IF take < want
                            THEN [val |-> total + take, pos |-> pos + take, out |-> out2, s |-> g.s]
                            ELSE read_loop_strict(g.s, pos + take, total + take, count, out2))

\* ---- the byte-range paths ----
RECURSIVE read_loop(_, _, _, _, _)
read_loop(s, pos, total, count, out) ==
  IF total >= count THEN [val |-> total, pos |-> pos, out |-> out, s |-> s]
  ELSE With(cache_get(s, pos \div PageSize), LAMBDA g :
         LET page_no == pos \div PageSize
             in_page == pos % PageSize
             want == min_sz(count - total, PageSize - in_page)
         IN IF ~g.ok
            THEN [val |-> IF total > 0 THEN total ELSE -1, pos |-> pos, out |-> out, s |-> g.s]
            ELSE LET p == g.s.c.ent[page_no]
                 IN IF in_page >= p.valid_len
                    THEN [val |-> total, pos |-> pos, out |-> out, s |-> g.s]
                    ELSE LET avail == p.valid_len - in_page
                             take == min_sz(want, avail)
                             out2 == out \o SubSeq(p.data, in_page + 1, in_page + take)
                         IN IF take < want
                            THEN [val |-> total + take, pos |-> pos + take, out |-> out2, s |-> g.s]
                            ELSE read_loop(g.s, pos + take, total + take, count, out2))

RECURSIVE write_loop(_, _, _, _)
write_loop(s, pos, total, buf) ==
  IF total >= Len(buf) THEN [val |-> total, pos |-> pos, s |-> s]
  ELSE With(cache_get(s, pos \div PageSize), LAMBDA g :
         LET page_no == pos \div PageSize
             in_page == pos % PageSize
             chunk == min_sz(Len(buf) - total, PageSize - in_page)
         IN IF ~g.ok
            THEN [val |-> IF total > 0 THEN total ELSE -1, pos |-> pos, s |-> g.s]
            ELSE LET p == g.s.c.ent[page_no]
                     \* memset of [valid_len, in_page), then memcpy of the chunk
                     data2 == [i \in 1..PageSize |->
                                 IF i > in_page /\ i <= in_page + chunk THEN buf[total + i - in_page]
                                 ELSE IF i > p.valid_len /\ i <= in_page THEN 0
                                 ELSE p.data[i]]
                     p2 == [p EXCEPT !.data = data2,
                                     !.valid_len = max_sz(@, in_page + chunk),
                                     !.dirty = TRUE]
                     s2 == [g.s EXCEPT !.c.ent[page_no] = p2]
                     new_end == pos + chunk
                 IN IF new_end > s2.size
                    THEN With(os_ftruncate([s2 EXCEPT !.size = new_end], new_end), LAMBDA t :
                           IF t.rc # 0
                           THEN [val |-> total + chunk, pos |-> new_end, s |-> t.s]
                           ELSE write_loop(t.s, new_end, total + chunk, buf))
                    ELSE write_loop(s2, new_end, total + chunk, buf))

\* ---- the library calls ----
\* Each takes x = [disk, h, cache], the file and g_handles[3], and gives the
\* same three after the call, with ret (what the call was given and what it
\* returned) and fired (the planned fault happened).
AccModes == {"RDONLY", "WRONLY", "RDWR"}
Whences == {"SET", "CUR", "END", "BAD"}

NoHandle == [used |-> FALSE, acc |-> "RDONLY", app |-> FALSE, pos |-> 0, size |-> 0]

Ret(x, op, arg, val, errno) ==
  [op |-> op, arg |-> arg, val |-> val, errno |-> errno, out |-> <<>>,
   pos0 |-> x.h.pos, size0 |-> x.h.size, err |-> FALSE, lost |-> FALSE, dropped |-> FALSE]

S0(x, k) ==
  [disk |-> x.disk, acc |-> x.h.acc, app |-> x.h.app, size |-> x.h.size, c |-> x.cache,
   k |-> k, fired |-> FALSE, err |-> FALSE, errno |-> "none",
   lost |-> FALSE, dropped |-> FALSE, hang |-> FALSE]

\* a return that leaves the file, the handle and the cache as they were
Early(x, r) == [disk |-> x.disk, h |-> x.h, cache |-> x.cache, ret |-> r, fired |-> FALSE]
\* get_handle(fd) = NULL
BadFd(x, op, arg) == Early(x, Ret(x, op, arg, -1, "EBADF"))
\* the call never returns
Hung(x) == Early(x, Ret(x, "hang", <<>>, -1, "none"))

\* fail: open(2), fstat or cache_init fails
vtpc_open(x, acc, app, fail) ==
  IF fail THEN [Early(x, Ret(x, "open", <<acc, app>>, -1, "EIO")) EXCEPT !.fired = TRUE]
  ELSE [disk |-> x.disk,
        h |-> [used |-> TRUE, acc |-> acc, app |-> app, pos |-> 0, size |-> Len(x.disk)],
        cache |-> cache_init(CachePages),
        ret |-> Ret(x, "open", <<acc, app>>, 3, "none"),
        fired |-> FALSE]

vtpc_close(x, k) ==
  IF ~x.h.used THEN BadFd(x, "close", <<>>)
  ELSE With(cache_flush_all(S0(x, k)), LAMBDA f :
       With(os_close(f.s), LAMBDA c :
       With(cache_destroy(c.s, {p \in DOMAIN x.cache.ent : x.cache.ent[p].dirty}),
            LAMBDA d :
         LET val == IF f.rc # 0 \/ c.rc # 0 THEN -1 ELSE 0
             eno == IF f.rc # 0 THEN f.s.errno ELSE IF c.rc # 0 THEN c.s.errno ELSE "none"
         IN [disk |-> d.disk, h |-> NoHandle, cache |-> d.c,
             ret |-> [Ret(x, "close", <<>>, val, eno)
                        EXCEPT !.err = d.err, !.lost = d.lost, !.dropped = d.dropped],
             fired |-> d.fired])))

vtpc_lseek(x, offset, whence) ==
  IF ~x.h.used THEN BadFd(x, "lseek", <<offset, whence>>)
  ELSE IF whence = "BAD" THEN Early(x, Ret(x, "lseek", <<offset, whence>>, -1, "EINVAL"))
  ELSE LET base == IF whence = "SET" THEN 0 ELSE IF whence = "CUR" THEN x.h.pos ELSE x.h.size
           np == base + offset
       IN IF np < 0 THEN Early(x, Ret(x, "lseek", <<offset, whence>>, -1, "EINVAL"))
          ELSE [Early(x, Ret(x, "lseek", <<offset, whence>>, np, "none")) EXCEPT !.h.pos = np]

vtpc_read(x, count, nullbuf, k) ==
  IF ~x.h.used THEN BadFd(x, "read", count)
  ELSE IF nullbuf /\ count > 0 THEN Early(x, Ret(x, "read", count, -1, "EINVAL"))
  ELSE IF count = 0 THEN Early(x, Ret(x, "read", count, 0, "none"))
  ELSE IF x.h.acc = "WRONLY" THEN Early(x, Ret(x, "read", count, -1, "EBADF"))
  ELSE With(read_loop(S0(x, k), x.h.pos, 0, count, <<>>), LAMBDA r :
         IF r.s.hang THEN Hung(x)
         ELSE [disk |-> r.s.disk,
               h |-> [x.h EXCEPT !.pos = r.pos],
               cache |-> r.s.c,
               ret |-> [Ret(x, "read", count, r.val, IF r.val < 0 THEN r.s.errno ELSE "none")
                          EXCEPT !.out = r.out, !.err = r.s.err, !.lost = r.s.lost],
               fired |-> r.s.fired])

vtpc_write(x, buf, nullbuf, k) ==
  IF ~x.h.used THEN BadFd(x, "write", buf)
  ELSE IF nullbuf /\ Len(buf) > 0 THEN Early(x, Ret(x, "write", buf, -1, "EINVAL"))
  ELSE IF Len(buf) = 0 THEN Early(x, Ret(x, "write", buf, 0, "none"))
  ELSE IF x.h.acc = "RDONLY" THEN Early(x, Ret(x, "write", buf, -1, "EBADF"))
  ELSE With(write_loop(S0(x, k), IF x.h.app THEN x.h.size ELSE x.h.pos, 0, buf), LAMBDA w :
         IF w.s.hang THEN Hung(x)
         ELSE [disk |-> w.s.disk,
               h |-> [x.h EXCEPT !.pos = w.pos, !.size = w.s.size],
               cache |-> w.s.c,
               ret |-> [Ret(x, "write", buf, w.val, IF w.val < 0 THEN w.s.errno ELSE "none")
                          EXCEPT !.err = w.s.err, !.lost = w.s.lost],
               fired |-> w.s.fired])

vtpc_fsync(x, k) ==
  IF ~x.h.used THEN BadFd(x, "fsync", <<>>)
  ELSE With(cache_flush_all(S0(x, k)), LAMBDA f :
         [disk |-> f.s.disk, h |-> x.h, cache |-> f.s.c,
          ret |-> [Ret(x, "fsync", <<>>, f.rc, IF f.rc < 0 THEN f.s.errno ELSE "none")
                     EXCEPT !.err = f.s.err],
          fired |-> f.s.fired])

\* where a write of buf through x.h starts
WriteStart(x) == IF x.h.app THEN x.h.size ELSE x.h.pos

\* ---- inputs ----
Offsets == {0 - MaxFile, 0 - 1, 0, PageSize, MaxFile}
\* short counts, and long ones that reach or nearly reach the last page
ShortCounts == 0..MaxCount
LongCounts == (MaxFile - MaxCount)..MaxFile
Counts == ShortCounts \cup LongCounts
Plans == {NoFault} \cup {[kind |-> f, n |-> i] : f \in FaultKinds, i \in 1..MaxNth}
\* the plans whose fault a call can meet: a read or a write allocates, reads
\* pages and writes pages back; a flush writes pages back and syncs
DataPlans == {k \in Plans : k.kind \in {"none", "alloc", "pread", "pwrite", "ftruncate"}}
FlushPlans == {k \in Plans : k.kind \in {"none", "pwrite", "ftruncate", "fsync"}}
ClosePlans == FlushPlans \cup {k \in Plans : k.kind = "close"}
\* the buffer of n bytes a, a+1, ... (mod MaxByte + 1)
Pattern(a, n) == [i \in 1..n |-> (a + i - 1) % (MaxByte + 1)]
Bufs == {Pattern(a, n) : a \in Bytes, n \in ShortCounts} \cup {Pattern(1, n) : n \in LongCounts}

\* ---- warm-up ----
\* A run starts from construction, from the state that a scan leaves (an open
\* read-write handle after n sequential accesses, the first of one byte and the
\* others of PageSize bytes, so that each of them touches the page of the one
\* before, promoting it, and the next page).
InitLens == {0, PageSize + 1, MaxFile}
InitFiles == {[i \in 1..n |-> MaxByte] : n \in InitLens}
Fresh(f) == [disk |-> f, h |-> NoHandle, cache |-> NoCache]
InitRet == Ret(Fresh(<<>>), "init", <<>>, 0, "none")

RECURSIVE Scan(_, _, _)
Scan(x, kind, n) ==
  IF n = 0 THEN vtpc_open(x, "RDWR", FALSE, FALSE)
  ELSE With(Scan(x, kind, n - 1), LAMBDA y :
         IF kind = "read" THEN vtpc_read(y, IF n = 1 THEN 1 ELSE PageSize, FALSE, NoFault)
         ELSE vtpc_write(y, Pattern(1, IF n = 1 THEN 1 ELSE PageSize), FALSE, NoFault))

WarmStates ==
  {[disk |-> f, h |-> NoHandle, cache |-> NoCache, ret |-> InitRet, fired |-> FALSE] : f \in InitFiles}
  \cup {Scan(Fresh(f), kind, n) : f \in InitFiles, kind \in {"read", "write"}, n \in 0..MaxWarm}

\* ---- the descriptor table ----
\* g_handles: for each slot a handle, with its cache and the file it is opened on
Slots == 0..(MaxHandles - 1)
vtpc_init_once == [i \in Slots |-> Fresh(<<>>)]

\* TRUE iff get_handle(fd) is not NULL
get_handle(tab, fd) == fd >= 0 /\ fd < MaxHandles /\ tab[fd].h.used

\* a search for a free slot that starts at slot 0
alloc_handle_slot_any(tab) ==
  LET free == {i \in Slots : ~tab[i].h.used}
  IN IF free = {} THEN -1 ELSE CHOOSE i \in free : \A j \in free : i <= j

\* the slot alloc_handle_slot returns, -1 when there is none (EMFILE)
alloc_handle_slot(tab) ==
  LET free == {i \in 3..(MaxHandles - 1) : ~tab[i].h.used}
  IN IF free = {} THEN -1 ELSE CHOOSE i \in free : \A j \in free : i <= j

\* a call that leaves the table as it is and returns -1 with errno
FdFail(tab, op, arg, errno) ==
  [tab |-> tab, ret |-> Ret(Fresh(<<>>), op, arg, -1, errno), fired |-> FALSE]
\* the call on the handle of slot fd gave y
FdPut(tab, fd, y) ==
  [tab |-> [tab EXCEPT ![fd] = [disk |-> y.disk, h |-> y.h, cache |-> y.cache]],
   ret |-> y.ret, fired |-> y.fired]

\* vtpc_open as a whole: the slot, then the handle in it; the file is the one
\* the slot was last opened on
fd_open(tab, acc, app, fail) ==
  LET slot == alloc_handle_slot(tab)
  IN IF slot < 0 THEN FdFail(tab, "open", <<acc, app>>, "EMFILE")
     ELSE LET y == vtpc_open(tab[slot], acc, app, fail)
          IN FdPut(tab, slot, [y EXCEPT !.ret.val = IF y.ret.val < 0 THEN -1 ELSE slot])

fd_close(tab, fd, k) ==
  IF ~get_handle(tab, fd) THEN FdFail(tab, "close", <<>>, "EBADF")
  ELSE FdPut(tab, fd, vtpc_close(tab[fd], k))

fd_lseek(tab, fd, offset, whence) ==
  IF ~get_handle(tab, fd) THEN FdFail(tab, "lseek", <<offset, whence>>, "EBADF")
  ELSE FdPut(tab, fd, vtpc_lseek(tab[fd], offset, whence))

fd_read(tab, fd, count) ==
  IF ~get_handle(tab, fd) THEN FdFail(tab, "read", count, "EBADF")
  ELSE FdPut(tab, fd, vtpc_read(tab[fd], count, FALSE, NoFault))

fd_write(tab, fd, buf) ==
  IF ~get_handle(tab, fd) THEN FdFail(tab, "write", buf, "EBADF")
  ELSE FdPut(tab, fd, vtpc_write(tab[fd], buf, FALSE, NoFault))

fd_fsync(tab, fd) ==
  IF ~get_handle(tab, fd) THEN FdFail(tab, "fsync", <<>>, "EBADF")
  ELSE FdPut(tab, fd, vtpc_fsync(tab[fd], NoFault))

\* the descriptors a caller passes: the slots that open can return, and -1, a
\* standard descriptor and VTPC_MAX_HANDLES
FdArgs == {0 - 1, 2, MaxHandles} \cup (3..(MaxHandles - 1))
FdPlans == {NoFault, [kind |-> "fsync", n |-> 1], [kind |-> "close", n |-> 1]}
\* the table after vtpc_init_once; open is the set of the descriptors that an
\* open returned and no close was given since, before is that set when the
\* last call was made, fd is the descriptor of the last call and known tells
\* whether get_handle found its handle
NoFds == [tab |-> vtpc_init_once, open |-> {}, before |-> {}, fd |-> 0 - 1, known |-> FALSE]

\* ---- state ----
VARIABLES
  disk,    \* the backing file
  h,       \* g_handles[3]: used, flags (acc, app), pos, size
  cache,   \* g_handles[3].cache
  ret,     \* the last library call: what it was given and what it returned
  lastw,   \* the complete write that the last call, or the close after it, was
  nops,    \* library calls made since the warm-up
  fds      \* g_handles as a whole, in the runs that follow the descriptors

vars == <<disk, h, cache, ret, lastw, nops, fds>>

Cur == [disk |-> disk, h |-> h, cache |-> cache]

NoWrite == [st |-> "none", o |-> 0, B |-> <<>>, app |-> FALSE, size |-> 0]
\* the complete write that the call returning r through a handle with O_APPEND
\* = app was, if it was one
WriteOf(r, app) ==
  IF r.op = "write" /\ Len(r.arg) > 0 /\ r.val = Len(r.arg)
  THEN [st |-> "written", o |-> IF app THEN r.size0 ELSE r.pos0, B |-> r.arg,
        app |-> app, size |-> 0]
  ELSE NoWrite

Init ==
  /\ \E w \in WarmStates :
        /\ disk = w.disk
        /\ h = w.h
        /\ cache = w.cache
        /\ ret = w.ret
        /\ lastw = WriteOf(w.ret, w.h.app)
  /\ nops = 0
  /\ fds = NoFds

Running == ret.op # "hang" /\ nops < MaxOps

\* the call made returns y; a fault plan counts if its fault happens, and the
\* cursor and the file stay within the pages of the model
Returns(y, k) ==
  /\ k = NoFault \/ y.fired
  /\ y.h.pos <= MaxFile
  /\ y.h.size <= MaxFile
  /\ disk' = y.disk
  /\ h' = y.h
  /\ cache' = y.cache
  /\ ret' = y.ret
  /\ nops' = nops + 1
  /\ UNCHANGED fds

Open(acc, app, fail) ==
  /\ Running
  /\ ~h.used      \* the model has the one slot, g_handles[3]
  /\ Returns(vtpc_open(Cur, acc, app, fail), NoFault)
  /\ lastw' = NoWrite

Close(k) ==
  /\ Running
  /\ Returns(vtpc_close(Cur, k), k)
  /\ lastw' = IF lastw.st = "written" /\ ret'.val = 0
              THEN [lastw EXCEPT !.st = "closed", !.size = h.size]
              ELSE NoWrite

Lseek(offset, whence) ==
  /\ Running
  /\ Returns(vtpc_lseek(Cur, offset, whence), NoFault)
  /\ lastw' = NoWrite

Read(count, nullbuf, k) ==
  /\ Running
  /\ Returns(vtpc_read(Cur, count, nullbuf, k), k)
  /\ lastw' = NoWrite

Write(buf, nullbuf, k) ==
  /\ Running
  /\ h.used /\ h.acc # "RDONLY" /\ ~nullbuf => WriteStart(Cur) + Len(buf) <= MaxFile
  /\ Returns(vtpc_write(Cur, buf, nullbuf, k), k)
  /\ lastw' = WriteOf(ret', h.app)

Fsync(k) ==
  /\ Running
  /\ Returns(vtpc_fsync(Cur, k), k)
  /\ lastw' = NoWrite

Next ==
  \/ \E acc \in AccModes, app \in BOOLEAN, fail \in BOOLEAN : Open(acc, app, fail)
  \/ \E k \in ClosePlans : Close(k)
  \/ \E offset \in Offsets, whence \in Whences : Lseek(offset, whence)
  \/ \E count \in Counts, nullbuf \in BOOLEAN, k \in DataPlans : Read(count, nullbuf, k)
  \/ \E buf \in Bufs, nullbuf \in BOOLEAN, k \in DataPlans : Write(buf, nullbuf, k)
  \/ \E k \in FlushPlans : Fsync(k)

Spec == Init /\ [][Next]_vars

\* ---- the runs that follow the descriptors ----
InitFd ==
  /\ disk = <<>> /\ h = NoHandle /\ cache = NoCache
  /\ ret = InitRet /\ lastw = NoWrite /\ nops = 0
  /\ fds = NoFds

FdRunning == nops < MaxFdOps

FdReturns(fd, y, k) ==
  /\ k = NoFault \/ y.fired
  /\ fds' = [tab |-> y.tab, fd |-> fd, known |-> get_handle(fds.tab, fd),
             before |-> fds.open,
             open |-> IF y.ret.op = "open" THEN fds.open \cup ({fd} \ {0 - 1})
                      ELSE IF y.ret.op = "close" THEN fds.open \ {fd}
                      ELSE fds.open]
  /\ ret' = y.ret
  /\ nops' = nops + 1
  /\ UNCHANGED <<disk, h, cache, lastw>>

FdOpen(acc, app, fail) ==
  /\ FdRunning
  /\ LET y == fd_open(fds.tab, acc, app, fail) IN FdReturns(y.ret.val, y, NoFault)

FdClose(fd, k) ==
  /\ FdRunning
  /\ FdReturns(fd, fd_close(fds.tab, fd, k), k)

FdLseek(fd, offset, whence) ==
  /\ FdRunning
  /\ FdReturns(fd, fd_lseek(fds.tab, fd, offset, whence), NoFault)

FdRead(fd, count) ==
  /\ FdRunning
  /\ FdReturns(fd, fd_read(fds.tab, fd, count), NoFault)

FdWrite(fd, buf) ==
  /\ FdRunning
  /\ FdReturns(fd, fd_write(fds.tab, fd, buf), NoFault)

FdFsync(fd) ==
  /\ FdRunning
  /\ FdReturns(fd, fd_fsync(fds.tab, fd), NoFault)

NextFd ==
  \/ \E acc \in AccModes, app \in BOOLEAN, fail \in BOOLEAN : FdOpen(acc, app, fail)
  \/ \E fd \in FdArgs, k \in FdPlans : FdClose(fd, k)
  \/ \E fd \in FdArgs, offset \in {0, 1} : FdLseek(fd, offset, "SET")
  \/ \E fd \in FdArgs, count \in 0..1 : FdRead(fd, count)
  \/ \E fd \in FdArgs, n \in 0..1 : FdWrite(fd, Pattern(1, n))
  \/ \E fd \in FdArgs : FdFsync(fd)

SpecFd == InitFd /\ [][NextFd]_vars

\* ---- what the claims speak of ----
Occ(l, x) == Cardinality({i \in 1..Len(l) : l[i] = x})
Resident == Live(cache.resident)
Ghosts == Live(cache.ghosts)
Readable == h.used /\ h.acc # "WRONLY"
\* seek to o, then read count bytes, with no fault
ReadAt(x, o, count) == vtpc_read(vtpc_lseek(x, o, "SET"), count, FALSE, NoFault)
\* the last call was a complete write of lastw.B at lastw.o, placed by the cursor
Wrote == lastw.st = "written" /\ ~lastw.app
\* that write was followed by a close that returned 0
WroteClosed == lastw.st = "closed" /\ ~lastw.app
PagesOf(o, n) == {p \in Pages : p * PageSize < o + n /\ (p + 1) * PageSize > o}

\* C1 Read-after-write on one handle: after vtpc_write of B at o has returned
\* |B|, seeking back to o and reading |B| bytes returns exactly B.
C1_ReadAfterWrite ==
  Wrote =>
    LET y == ReadAt(Cur, lastw.o, Len(lastw.B))
    IN y.ret.val = Len(lastw.B) /\ y.ret.out = lastw.B

\* C2 Round trip through close and reopen: after a write of B at o and a close
\* that returned 0, the file is file_size bytes long and a handle opened on it
\* reads B at o.
C2_RoundTrip ==
  WroteClosed =>
    /\ Len(disk) = lastw.size
    /\ \A acc \in {"RDONLY", "RDWR"}, app \in BOOLEAN :
         LET y == ReadAt(vtpc_open(Cur, acc, app, FALSE), lastw.o, Len(lastw.B))
         IN y.ret.val = Len(lastw.B) /\ y.ret.out = lastw.B

\* C3 Dirty writeback: no call that returned success freed a dirty page, or
\* let one go with the cache, whose bytes were not in the file at its offset.
C3_DirtyWriteback == (ret.lost \/ ret.dropped) => ret.val < 0

\* C4 Short reads at EOF only: a read of count > 0 with no error that returns
\* fewer than count bytes leaves the cursor at or past file_size.
C4_ShortReadAtEOF ==
  /\ (ret.op = "read" /\ ret.arg > 0 /\ ~ret.err /\ ret.val >= 0 /\ ret.val < ret.arg)
       => h.pos >= h.size
  /\ Readable =>
       \A o \in 0..MaxFile, count \in 1..MaxCount :
         LET y == ReadAt(Cur, o, count)
         IN (~y.ret.err /\ y.ret.val >= 0 /\ y.ret.val < count) => y.h.pos >= y.h.size

\* C5 EOF read: a read at pos >= file_size through a handle opened for reading
\* returns 0 when no error occurs and leaves pos and file_size as they were.
C5_EOFRead ==
  /\ (ret.op = "read" /\ ret.errno # "EINVAL" /\ ret.errno # "EBADF"
      /\ ret.pos0 >= ret.size0 /\ ~ret.err)
       => (ret.val = 0 /\ h.pos = ret.pos0 /\ h.size = ret.size0)
  /\ (Readable /\ h.pos >= h.size) =>
       \A count \in Counts, k \in DataPlans :
         LET y == vtpc_read(Cur, count, FALSE, k)
         IN ~y.ret.err => (y.ret.val = 0 /\ y.h.pos = h.pos /\ y.h.size = h.size)

\* C6 File size: a write of count > 0 that returned a byte count and ended
\* past the old file_size leaves file_size at the cursor and the file at
\* least that long.
C6_FileSize ==
  (ret.op = "write" /\ Len(ret.arg) > 0 /\ ret.val >= 0 /\ h.pos > ret.size0)
    => (h.size = h.pos /\ Len(disk) >= h.pos)

\* C7 Capacity bounds: the size counters respect Kin, Am_cap, C and Kout and
\* each equals the length of its list.
C7_Bounds ==
  h.used =>
    /\ cache.a1in_sz <= cache.kin
    /\ cache.am_sz <= cache.am_cap
    /\ cache.a1in_sz + cache.am_sz <= cache.capacity
    /\ cache.a1out_sz <= cache.kout
    /\ cache.a1in_sz = Len(cache.a1in)
    /\ cache.am_sz = Len(cache.am)
    /\ cache.a1out_sz = Len(cache.a1out)

\* C8 Resident index and lists agree: a page is in the resident index iff it
\* is on exactly one of A1in and Am, once, and its tag names that list.
C8_ResidentAgrees ==
  \A p \in Pages :
    /\ p \in Resident <=> Occ(cache.a1in, p) + Occ(cache.am, p) = 1
    /\ (p \in Resident /\ InSeq(cache.a1in, p)) => cache.ent[p].q = "A1IN"
    /\ (p \in Resident /\ InSeq(cache.am, p)) => cache.ent[p].q = "AM"

\* C9 Ghost index and A1out agree: a page is in the ghost index iff it is on
\* A1out, where it is once, and no ghost is resident.
C9_GhostAgrees ==
  \A p \in Pages :
    /\ p \in Ghosts <=> InSeq(cache.a1out, p)
    /\ Occ(cache.a1out, p) <= 1
    /\ ~(p \in Ghosts /\ p \in Resident)
    /\ ~(InSeq(cache.a1out, p) /\ p \in Resident)

\* a long read from offset 0 has taken its pages through A1in: A1out is full
\* and the trim has dropped a page that is not resident either
C9_Witness ==
  /\ ret.op = "read" /\ ret.pos0 = 0 /\ ret.val >= CachePages * PageSize
  /\ Len(cache.a1out) = cache.kout /\ Cardinality(Ghosts) = cache.kout
  /\ \E p \in 0..(NPages - 1) : p \notin Resident /\ p \notin Ghosts

\* C10 Valid length: every resident page has valid_len <= page_size and zero
\* bytes from valid_len to the end of its buffer.
C10_ValidLen ==
  \A p \in Resident :
    LET e == cache.ent[p]
    IN /\ e.valid_len <= PageSize
       /\ Len(e.data) = PageSize
       /\ \A i \in (e.valid_len + 1)..PageSize : e.data[i] = 0

\* a page loaded where the file ends inside it, beside a page written from
\* beyond its valid_len
C10_Witness ==
  /\ \E p \in Resident :
       LET e == cache.ent[p]
       IN ~e.dirty /\ e.valid_len > 0 /\ e.valid_len < PageSize /\ e.data[1] # 0
  /\ \E p \in Resident :
       LET e == cache.ent[p]
       IN e.dirty /\ e.valid_len = PageSize /\ e.data[1] = 0 /\ e.data[PageSize] # 0

\* no entry of the resident table of cache c is dirty
NoDirty(c) == \A p \in Live(c.resident) : ~c.ent[p].dirty

\* C11 Idempotent fsync: on any open handle two consecutive vtpc_fsync calls
\* with no fault both return 0, no resident page is dirty after either, and
\* the second leaves the bytes and the length of the file as they were.
C11_IdempotentFsync ==
  h.used =>
    LET y1 == vtpc_fsync(Cur, NoFault)
        y2 == vtpc_fsync(y1, NoFault)
    IN /\ y1.ret.val = 0 /\ y2.ret.val = 0
       /\ NoDirty(y1.cache) /\ NoDirty(y2.cache)
       /\ y2.disk = y1.disk

\* C12 Append mode: after a write of B through a handle opened with O_APPEND
\* has returned |B|, a flush that succeeds leaves B in the file at the offset
\* that was file_size before the write.
C12_Append ==
  (lastw.st = "written" /\ lastw.app) =>
    LET y == vtpc_fsync(Cur, NoFault)
    IN y.ret.val = 0 =>
         /\ Len(y.disk) >= lastw.o + Len(lastw.B)
         /\ SubSeq(y.disk, lastw.o + 1, lastw.o + Len(lastw.B)) = lastw.B

\* the call that gave y failed with the bad-descriptor error and left the
\* file, the handle and the cache as they are
Refused(y) ==
  /\ y.ret.val = -1 /\ y.ret.errno = "EBADF"
  /\ y.disk = disk /\ y.h = h /\ y.cache = cache

\* C13 Access-mode violations: vtpc_read on a handle opened write-only and
\* vtpc_write on a handle opened read-only fail with EBADF for every count,
\* 0 included, and change neither the cursor, file_size, the cache nor the
\* file.
C13_AccessMode ==
  /\ (h.used /\ h.acc = "WRONLY") =>
       \A count \in Counts : Refused(vtpc_read(Cur, count, FALSE, NoFault))
  /\ (h.used /\ h.acc = "RDONLY") =>
       \A buf \in Bufs : Refused(vtpc_write(Cur, buf, FALSE, NoFault))
\* the descriptors that the table holds as open
Valid == {i \in Slots : fds.tab[i].h.used}

\* C14 Descriptor lifecycle: a descriptor returned by vtpc_open is in
\* [3, MAX_HANDLES) and was not open when it was returned; read, write, lseek,
\* fsync and close find the handle of a descriptor iff an open returned it and
\* no close was given it since, and fail with bad-descriptor, changing nothing,
\* otherwise; a descriptor given to close is invalid afterwards, whatever the
\* close returned.
C14_Lifecycle ==
  /\ Valid = fds.open
  /\ (ret.op = "open" /\ ret.val >= 0) =>
       /\ ret.val >= 3 /\ ret.val < MaxHandles
       /\ ret.val \notin fds.before
       /\ ret.val \in Valid
  /\ ret.op \in {"read", "write", "lseek", "fsync", "close"} =>
       /\ fds.known <=> fds.fd \in fds.before
       /\ ~fds.known => ret.val = 0 - 1 /\ ret.errno = "EBADF" /\ Valid = fds.before
       /\ (fds.known /\ ret.op \in {"lseek", "fsync", "close"}) => ret.errno # "EBADF"
       /\ (fds.known /\ ret.op # "close" /\ fds.tab[fds.fd].h.acc = "RDWR") => ret.errno # "EBADF"
       /\ ret.op = "close" => fds.fd \notin Valid

\* a close of one of two open descriptors returned an error, and the
\* descriptor is invalid while the other one stays
C14_Witness ==
  /\ ret.op = "close" /\ ret.val = 0 - 1 /\ ret.errno # "EBADF"
  /\ fds.fd \in fds.before /\ fds.fd \notin Valid
  /\ Valid # {}

\* whole-page reads of the pages ps, in that order, with no fault
RECURSIVE ReadPages(_, _)
ReadPages(x, ps) ==
  IF ps = <<>> THEN x
  ELSE ReadPages(ReadAt(x, Head(ps) * PageSize, PageSize), Tail(ps))
\* the last call opened a handle that can read, on a file of five pages or more
FreshHandle ==
  /\ ret.op = "open" /\ ret.val = 3 /\ nops > 0
  /\ Readable /\ h.size >= 5 * PageSize
  /\ cache.capacity = 4

\* C15 Ghost-hit scenario, as stated: with C = 4, Kin = 1, Kout = 2, after a
\* fresh handle has read pages 0, 1, 2, 3, 4, page 0 is in A1out, and the next
\* read of page 0 inserts it into Am and not into A1in.
C15_GhostHit ==
  FreshHandle =>
    LET y == ReadPages(Cur, <<0, 1, 2, 3, 4>>)
        z == ReadPages(y, <<0>>)
    IN /\ cache.kin = 1 /\ cache.kout = 2
       /\ InSeq(y.cache.a1out, 0)
       /\ InSeq(z.cache.am, 0) /\ ~InSeq(z.cache.a1in, 0)

\* C15 amended: after the reads of pages 0, 1, 2, 3, 4 A1out holds pages 3
\* and 2 only (page 0 left it when page 2 entered), and the next read of
\* page 0 is a cold miss that inserts it into A1in; after the reads of pages
\* 0, 1, 2 page 0 is in A1out, and the next read of page 0 finds it there and
\* inserts it into Am and not into A1in.
C15_GhostHitAmended ==
  FreshHandle =>
    LET y == ReadPages(Cur, <<0, 1, 2, 3, 4>>)
        z == ReadPages(y, <<0>>)
        u == ReadPages(Cur, <<0, 1, 2>>)
        v == ReadPages(u, <<0>>)
    IN /\ cache.kin = 1 /\ cache.kout = 2
       /\ y.cache.a1out = <<3, 2>>
       /\ z.ret.val = PageSize
       /\ z.cache.a1in = <<0>> /\ ~InSeq(z.cache.am, 0)
       /\ u.cache.a1out = <<1, 0>>
       /\ v.ret.val = PageSize
       /\ v.cache.am = <<0>> /\ ~InSeq(v.cache.a1in, 0) /\ ~InSeq(v.cache.a1out, 0)

\* a fresh handle whose reads of pages 0, 1, 2, 0 all succeed
C15_Witness ==
  /\ FreshHandle
  /\ ReadPages(Cur, <<0, 1, 2, 0>>).ret.val = PageSize

\* the plans under which cache_get can return an entry: of the calls it makes
\* only the calloc of a ghost record may fail without failing it
GetPlans == {k \in DataPlans : k.kind \in {"none", "alloc"}}
\* page_no is in the table t
InIndex(t, page_no) == ht_get(t, page_no) > 0
\* in cache c page_no is at the head of list l, on it once, and in the
\* resident index
AtHead(c, l, page_no) ==
  /\ l # <<>> /\ Head(l) = page_no /\ Occ(l, page_no) = 1
  /\ InIndex(c.resident, page_no)

\* C16 2Q placement rule: after a successful cache_get(p), p is resident and
\* at the head of Am if it was in the resident index or in A1out before the
\* call, and at the head of A1in otherwise; a page that was in A1out is not in
\* A1out afterwards.
C16_Placement ==
  h.used =>
    \A p \in Pages, k \in GetPlans :
      LET r == cache_get(S0(Cur, k), p)
          hit == InIndex(cache.resident, p)
          ghost == InIndex(cache.ghosts, p) \/ InSeq(cache.a1out, p)
      IN r.ok =>
           /\ IF hit \/ ghost
              THEN AtHead(r.s.c, r.s.c.am, p) /\ ~InSeq(r.s.c.a1in, p)
              ELSE AtHead(r.s.c, r.s.c.a1in, p) /\ ~InSeq(r.s.c.am, p)
           /\ (ghost /\ ~hit) => ~InSeq(r.s.c.a1out, p) /\ ~InIndex(r.s.c.ghosts, p)

\* a read has returned and left pages in A1in, in Am and in A1out, and a
\* page of each of them, and one that is nowhere, can be got
C16_Witness ==
  /\ ret.op = "read" /\ ret.val > 0 /\ nops > 0 /\ h.used
  /\ \E p \in Pages : InSeq(cache.a1in, p) /\ cache_get(S0(Cur, NoFault), p).ok
  /\ \E p \in Pages : InSeq(cache.am, p) /\ cache_get(S0(Cur, NoFault), p).ok
  /\ \E p \in Pages : InSeq(cache.a1out, p) /\ cache_get(S0(Cur, NoFault), p).ok
  /\ \E p \in Pages : /\ ~InIndex(cache.resident, p) /\ ~InSeq(cache.a1out, p)
                      /\ cache_get(S0(Cur, NoFault), p).ok

\* the plans that fail the writeback of a page: its pwrite or the ftruncate
\* that follows it
FlushFaults == {k \in Plans : k.kind \in {"pwrite", "ftruncate"} /\ k.n = 1}
\* the eviction that gave e from s failed, and the tail v of list l is back as
\* it was, at the front of the list, with the counter sz restored
Restored(s, e, l0, l1, sz0, sz1) ==
  e.rc # 0 =>
    LET v == l0[Len(l0)]
    IN /\ ~e.s.hang
       /\ v \in DOMAIN e.s.c.ent /\ e.s.c.ent[v] = s.c.ent[v] /\ e.s.c.ent[v].dirty
       /\ InIndex(e.s.c.resident, v)
       /\ l1 = <<v>> \o SubSeq(l0, 1, Len(l0) - 1)
       /\ sz1 = sz0
       /\ e.s.c.a1out = s.c.a1out /\ e.s.c.a1out_sz = s.c.a1out_sz
       /\ Live(e.s.c.ghosts) = Live(s.c.ghosts)
\* the read or write that gave y met a failing pwrite, and reports it
Reported(y, count) ==
  y.fired => \/ y.ret.val = 0 - 1 /\ y.ret.errno = "EIO"
             \/ y.ret.val > 0 /\ y.ret.val < count

FeedPlans == GetPlans \cup FlushFaults
\* the pages that a cache_get which leaves the cache as c puts in A1out,
\* takes out of A1out, and evicts from the list of tag q (the entry is freed)
Entered(c) == {g \in Pages : InSeq(c.a1out, g) /\ ~InSeq(cache.a1out, g)}
Left(c) == {g \in Pages : InSeq(cache.a1out, g) /\ ~InSeq(c.a1out, g)}
Evicted(c, q) ==
  {v \in DOMAIN cache.ent : /\ cache.ent[v].q = q
                            /\ InSeq(IF q = "AM" THEN cache.am ELSE cache.a1in, v)
                            /\ v \notin DOMAIN c.ent}

\* what cache_get(page_no) under plan k does to A1out; always: every eviction
\* from A1in is to leave its page in A1out, even when the ghost record cannot
\* be allocated (the first allocation of the call fails)
Feeds(page_no, k, always) ==
  With(cache_get(S0(Cur, k), page_no), LAMBDA r :
  With(Entered(r.s.c), LAMBDA in :
  With(Left(r.s.c), LAMBDA out :
    ~r.s.hang =>
       /\ in \subseteq Evicted(r.s.c, "A1IN")
       /\ in # {} => Head(r.s.c.a1out) \in in
       /\ (always \/ ~(k.kind = "alloc" /\ k.n = 1 /\ r.s.fired)) =>
            \A v \in Evicted(r.s.c, "A1IN") : InSeq(r.s.c.a1out, v)
       /\ \A v \in Evicted(r.s.c, "AM") : ~InSeq(r.s.c.a1out, v)
       /\ \A i \in 1..Len(cache.a1out) :
            (cache.a1out[i] \in out /\ cache.a1out[i] # page_no) =>
              /\ in # {} /\ Len(r.s.c.a1out) = cache.kout
              /\ \A j \in i..Len(cache.a1out) : cache.a1out[j] \in out
       /\ page_no \in out => ~InIndex(cache.resident, page_no))))

\* C18 Only A1in evictions feed A1out, as stated: a page enters A1out, at its
\* head, exactly when it is evicted from A1in, never when it is evicted from
\* Am, and leaves A1out only by a ghost hit on it or as the tail of an A1out
\* that exceeds Kout.
C18_OnlyA1in ==
  h.used => \A p \in Pages, k \in FeedPlans : Feeds(p, k, TRUE)

\* C18 amended: as stated, except that a page evicted from A1in does not
\* enter A1out when the ghost record cannot be allocated.
C18_OnlyA1inAmended ==
  h.used => \A p \in Pages, k \in FeedPlans : Feeds(p, k, FALSE)

\* a read has returned, and there is a page whose cache_get evicts from A1in
\* and trims A1out and a page whose cache_get evicts from Am
C18_Witness ==
  /\ ret.op = "read" /\ ret.val > 0 /\ nops > 0 /\ h.used
  /\ \E p \in Pages : With(cache_get(S0(Cur, NoFault), p), LAMBDA r :
                        r.ok /\ Entered(r.s.c) # {} /\ Left(r.s.c) # {})
  /\ \E p \in Pages : With(cache_get(S0(Cur, NoFault), p), LAMBDA r :
                        r.ok /\ Evicted(r.s.c, "AM") # {})

\* the slots of table t that are not empty: used ones and tombstones
NonEmpty(t) == {i \in 1..Cap(t) : t.st[i] # 0}

\* C19 Hash-index probes always terminate: the resident table and the ghost
\* table of an open handle each have an empty slot, tombstones counted as
\* non-empty, at most a quarter of their slots is non-empty, and no call is
\* left in a probe that never ends.
C19_ProbesTerminate ==
  /\ ret.op # "hang"
  /\ h.used =>
       /\ NonEmpty(cache.resident) # 1..Cap(cache.resident)
       /\ NonEmpty(cache.ghosts) # 1..Cap(cache.ghosts)
       /\ 4 * Cardinality(NonEmpty(cache.resident)) <= Cap(cache.resident)
       /\ 4 * Cardinality(NonEmpty(cache.ghosts)) <= Cap(cache.ghosts)

\* A list is in order of age when its head is the page got (Am) or inserted
\* (A1in) last and its tail the one got or inserted first.  cache_get(page_no)
\* keeps list l0, which becomes l1, in that order: page_no is at the head of
\* l1 or not on it, the other pages are in the order they were, and those
\* that are gone were the last ones
KeepsOrder(l0, l1, page_no) ==
  LET old == SeqRemove(l0, page_no)
      new == IF l1 # <<>> /\ Head(l1) = page_no THEN Tail(l1) ELSE l1
  IN /\ ~InSeq(new, page_no)
     /\ Len(new) <= Len(old)
     /\ new = SubSeq(old, 1, Len(new))
\* cache_get(page_no) has put the page it could not write back at the head of
\* l1, before the pages that were got or inserted after it
Requeued(l0, l1, page_no) ==
  LET old == SeqRemove(l0, page_no)
  IN /\ l1 # <<>> /\ Len(l1) <= Len(old)
     /\ Head(l1) = old[Len(l1)]
     /\ Tail(l1) = SubSeq(old, 1, Len(l1) - 1)

\* what cache_get(page_no) under plan k does to the order of A1in and of Am;
\* always: the order is to be kept when the writeback of a victim fails too
Ordered(page_no, k, always) ==
  With(cache_get(S0(Cur, k), page_no), LAMBDA r :
    ~r.s.hang =>
      IF always \/ ~(k \in FlushFaults /\ r.s.fired)
      THEN /\ KeepsOrder(cache.am, r.s.c.am, page_no)
           /\ KeepsOrder(cache.a1in, r.s.c.a1in, page_no)
      ELSE \/ /\ Requeued(cache.am, r.s.c.am, page_no)
              /\ KeepsOrder(cache.a1in, r.s.c.a1in, page_no)
           \/ /\ Requeued(cache.a1in, r.s.c.a1in, page_no)
              /\ KeepsOrder(cache.am, r.s.c.am, page_no))

\* C20 Eviction order, as stated: the victim of Am is the page of Am that was
\* got longest ago and the victim of A1in the page of A1in that was inserted
\* first, after a failed eviction writeback too: every cache_get takes its
\* victims from the tails and keeps both lists in order of age.
C20_EvictionOrder ==
  h.used => \A p \in Pages, k \in FeedPlans : Ordered(p, k, TRUE)

\* C20 amended: as stated, except that a victim whose writeback fails goes to
\* the head of its list, behind which the pages got or inserted after it
\* become the next victims.
C20_EvictionOrderAmended ==
  h.used => \A p \in Pages, k \in FeedPlans : Ordered(p, k, FALSE)

\* a read or write has returned and left two pages or more in Am, the last of
\* them dirty, and there is a page whose cache_get evicts it and one whose
\* cache_get fails to
C20_Witness ==
  /\ ret.op \in {"read", "write"} /\ nops > 0 /\ h.used
  /\ Len(cache.am) >= 2 /\ cache.ent[cache.am[Len(cache.am)]].dirty
  /\ \E p \in Pages : With(cache_get(S0(Cur, NoFault), p), LAMBDA r :
                        r.ok /\ Evicted(r.s.c, "AM") # {})
  /\ \E p \in Pages, k \in FlushFaults :
       With(cache_get(S0(Cur, k), p), LAMBDA r :
         ~r.ok /\ r.s.fired /\ Head(r.s.c.am) = cache.am[Len(cache.am)])

\* the last call was a read or a write in which a page fetch or the
\* extension of the file failed
MidFailure == ret.op \in {"read", "write"} /\ ret.err
\* where its transfer started, and the bytes it transferred: the cursor moves
\* with every chunk copied
XferStart == IF ret.op = "write" /\ h.app THEN ret.size0 ELSE ret.pos0
Xferred == h.pos - XferStart

\* C21 Partial success on mid-operation failure: a read or write in which a
\* page fetch or the file extension failed returns the count of the bytes it
\* had transferred if that is positive and -1 with the error if it is zero;
\* the cursor is that many bytes past the start of the transfer, and a read
\* has filled that many bytes of the buffer.
C21_PartialSuccess ==
  MidFailure =>
    /\ Xferred >= 0
    /\ Xferred > 0 => ret.val = Xferred
    /\ Xferred = 0 => ret.val = 0 - 1 /\ ret.errno # "none"
    /\ ret.op = "read" => Len(ret.out) = Xferred /\ Xferred <= ret.arg
    /\ ret.op = "write" => Xferred <= Len(ret.arg)

\* a read that could not get its second or a later page has returned the
\* bytes of the pages before it
C21_Witness ==
  /\ MidFailure /\ ret.op = "read" /\ nops > 0
  /\ ret.val > 0 /\ ret.val < ret.arg /\ Len(ret.out) = ret.val

\* C22 Writes work on write-only handles: through a handle opened write-only
\* a vtpc_write of count > 0 bytes, with no fault, returns count.
C22_WriteOnly ==
  (h.used /\ h.acc = "WRONLY") =>
    \A buf \in Bufs :
      (Len(buf) > 0 /\ WriteStart(Cur) + Len(buf) <= MaxFile) =>
        vtpc_write(Cur, buf, FALSE, NoFault).ret.val = Len(buf)

\* the first loop of ensure_space_for_am: rc = 0 with the cache as the second
\* loop finds it, rc = -1 when an eviction fails or the loop cannot end
RECURSIVE AmLoop(_)
AmLoop(s) ==
  IF s.hang THEN [rc |-> -1, s |-> s]
  ELSE IF s.c.am_sz >= s.c.am_cap
  THEN With(evict_from_am(s), LAMBDA e :
         IF e.rc # 0 \/ Spin(e) THEN [rc |-> -1, s |-> e.s] ELSE AmLoop(e.s))
  ELSE [rc |-> 0, s |-> s]
\* the condition of the combined-capacity loops
Combined(c) == SzAdd(c.a1in_sz, c.am_sz) >= c.capacity
\* cache_get(page_no) hits a page tagged A1in, finds a ghost, or misses cold
Promotion(page_no) ==
  InIndex(cache.resident, page_no) /\ cache.ent[page_no].q = "A1IN"
GhostHit(page_no) ==
  ht_get(cache.resident, page_no) = 0 /\ InIndex(cache.ghosts, page_no)
ColdMiss(page_no) ==
  ht_get(cache.resident, page_no) = 0 /\ ht_get(cache.ghosts, page_no) = 0
\* the cache as cache_get(page_no) hands it to ensure_space_for_am
BeforeAm(page_no) ==
  IF Promotion(page_no)
  THEN [S0(Cur, NoFault) EXCEPT !.c.a1in = page_list_remove(@, page_no),
                                !.c.a1in_sz = SzDec(@)]
  ELSE [DelGhost([S0(Cur, NoFault) EXCEPT !.c.a1out = ghost_list_remove(@, page_no)], page_no)
          EXCEPT !.c.a1out_sz = SzDec(@)]

====
